---- MODULE Spec2Model ----
(***************************************************************************)
(* Inactivity watchdogs of poc-fly-microservice.                           *)
(*                                                                         *)
(*   SpecI : pkg/inactivity/inactivity.go, type Inactivity (mutex, count   *)
(*           of in-flight requests, time.AfterFunc timers).                *)
(*   SpecW : package inactivity, type Watchdog (reset channel, WaitGroup,  *)
(*           context, one watch goroutine with a time.Timer).              *)
(*   SpecS : internal/app/server.go, configureInactivityTimeout (one       *)
(*           time.AfterFunc timer reset by every request, WaitGroup).      *)
(*   SpecA : activity.go, activityTracker and monitorActivity (last       *)
(*           activity time, one-minute ticker, shutdown channel).          *)
(*                                                                         *)
(* Time is a discrete clock.  A time.AfterFunc timer may start its         *)
(* callback goroutine at any instant at or after its deadline, and that    *)
(* goroutine acquires the mutex at any later instant: the Go runtime       *)
(* bounds neither delay.                                                   *)
(***************************************************************************)
EXTENDS Integers, FiniteSets, Sequences, TLC

\* ---- bounds -------------------------------------------------------------
NumReqs == 2       \* concurrent request goroutines
MaxTimers == 3     \* timer objects alive at the same time
MaxTime == 5       \* last instant of the clock
MaxStops == 2      \* calls of Watchdog.Stop
MaxInvoked == 3    \* calls of onInactive
MaxShutdowns == 2  \* calls of Inactivity.Shutdown that are counted
MaxATime == 7      \* last instant of the clock of monitorActivity, in minutes

\* ---- program parameters -------------------------------------------------
Timeout == 2       \* the timeout given to New (the tests use 2 seconds)
ResetCap == 1      \* capacity of Watchdog.resetCh
Duration == Timeout \* cfg.InactivityTimeout of configureInactivityTimeout
ShutdownTimeout == 5 \* shutdownTimeout = 5 * time.Minute
TickerPeriod == 1  \* time.NewTicker(1 * time.Minute)

Reqs == 1..NumReqs
TimerIds == 1..MaxTimers
None == 0 - 1      \* "no such instant"
Nil == 0           \* the nil *time.Timer
Free == 0          \* the unlocked sync.Mutex

VARIABLES
    \* ---- Inactivity ----
    now,          \* the clock
    active,       \* Inactivity.active
    timer,        \* Inactivity.timer: Nil or the id of a timer object
    timerActive,  \* Inactivity.timerActive
    mu,           \* Inactivity.mu: Free, or the id of the callback that holds it
    timers,       \* the timer objects made by time.AfterFunc
    ipc,          \* per request: "idle" or "serving" (inside next.ServeHTTP)
    enteredAt,    \* per request: instant of its increment, None when idle
    invoked,      \* number of calls of onInactive so far
    stopped,      \* Shutdown() was called while no timer had expired
    lastEnter,    \* instant of the latest increment, None before the first
    lastDrain,    \* latest decrement that brought active to 0
    rec,          \* what held at the latest call of onInactive
    skips,        \* a callback found active # 0 and did not call onInactive
    timeout,      \* Inactivity.timeout
    shutdowns,    \* calls of Shutdown() so far, counted up to MaxShutdowns
    panics,       \* an inner handler has panicked
    lateShutdown, \* Shutdown() has been called with the timer field nil after
                  \* a call of onInactive
    \* ---- Watchdog ----
    wpc,          \* watch goroutine: "start", "select", "wait", "call", "done"
    wtimer,       \* the time.Timer of watch: "unset", "armed", "expired", "stopped"
    wtick,        \* a value is ready on timer.C
    resetCh,      \* number of values buffered in resetCh (capacity 1)
    cancelled,    \* shutdownCtx is done
    onceDone,     \* Watchdog.once has run
    activeReqs,   \* counter of the WaitGroup
    rpc,          \* per request: "idle", "send", "add", "serving"
    stops,        \* calls of Stop() made
    stopPhase,    \* state of the watchdog when Stop() cancelled the context
    wcalls,       \* number of calls of shutdownFn so far
    wrec,         \* what held at the latest call of shutdownFn
    lateEntry,    \* a request entered Middleware after the timer had fired
                  \* and no reset has been consumed since
    wdrained,     \* watch has consumed a reset with a value ready on timer.C
    wblocked,     \* watch has been in activeReqs.Wait() with the counter above 0
    \* ---- configureInactivityTimeout ----
    snow,         \* the clock
    stimer,       \* the timer of time.AfterFunc: armed or not, and its deadline
    cbWait,       \* callback goroutines in activeReqs.Wait()
    cbReady,      \* callback goroutines past Wait(), before stop()
    sactive,      \* counter of the WaitGroup activeReqs
    spc,          \* per request: "idle", "added", "serving"
    sLastEnter,   \* instant of the latest activeReqs.Add(1), None before the first
    stopCalls,    \* number of calls of stop() so far
    srec,         \* what held at the latest call of stop()
    \* ---- activityTracker and monitorActivity ----
    anow,         \* the clock, in minutes
    lastActivity, \* activityTracker.lastActivity
    apc,          \* per request: "idle", "serving"
    tickReady,    \* a value is ready on ticker.C
    nextTick,     \* instant at which the ticker sends next
    ctxDone,      \* ctx has been cancelled
    mpc,          \* monitorActivity: "select", "check", "close", "done"
    inactiveDuration, \* the local of monitorActivity, None before the first check
    closes,       \* number of close(shutdown) executed
    arec          \* what held at the latest close(shutdown)

ivars == <<now, active, timer, timerActive, mu, timers, ipc, enteredAt,
           invoked, stopped, lastEnter, lastDrain, rec, skips, timeout,
           shutdowns, panics, lateShutdown>>
wvars == <<wpc, wtimer, wtick, resetCh, cancelled, onceDone, activeReqs,
           rpc, stops, stopPhase, wcalls, wrec, lateEntry, wdrained,
           wblocked>>
svars == <<snow, stimer, cbWait, cbReady, sactive, spc, sLastEnter, stopCalls,
           srec>>
avars == <<anow, lastActivity, apc, tickReady, nextTick, ctxDone, mpc,
           inactiveDuration, closes, arec>>
vars == <<ivars, wvars, svars, avars>>

\* =========================================================================
\* Inactivity (src/pkg/inactivity/inactivity.go)
\* =========================================================================

\* A timer object.  state:
\*   "free"      no such object (never made, or garbage)
\*   "scheduled" waiting for its deadline
\*   "stopped"   Stop() succeeded before the deadline
\*   "fired"     the runtime started the callback goroutine, which waits
\*               for mu.Lock()
\*   "invoking"  the callback holds mu and is inside onInactive()
\* reset: increment called Stop() on this timer and cleared the timer field.
FreeTimer ==
    [state |-> "free", deadline |-> 0, reset |-> FALSE]

\* time.AfterFunc(d, f) called at instant t: a new timer object due at t + d.
AfterFunc(t, d) ==
    [state |-> "scheduled", deadline |-> t + d, reset |-> FALSE]

\* (*Timer).Stop(): prevents the firing of a timer that has not fired yet and
\* does nothing to a timer whose callback goroutine has already been started.
TimerStop(tm) ==
    IF tm.state = "scheduled" THEN [tm EXCEPT !.state = "stopped"] ELSE tm

\* The timer objects after the collection of those that nothing references
\* and that will never run: stopped timers the timer field does not hold.
Collect(tms, ref) ==
    [id \in TimerIds |->
        IF tms[id].state = "stopped" /\ id # ref THEN FreeTimer ELSE tms[id]]

FreeIds == {id \in TimerIds : timers[id].state = "free"}
NewId == CHOOSE id \in FreeIds : \A other \in FreeIds : id <= other

Serving == {r \in Reqs : ipc[r] = "serving"}

NoRec == [at |-> None, enter |-> None, drain |-> None, long |-> FALSE,
          inflight |-> 0, reset |-> FALSE, stopped |-> FALSE]

\* New(d, onInactive), called at instant 0.
New(d) ==
    /\ timeout = d
    /\ now = 0
    /\ active = 0
    /\ timerActive = TRUE
    /\ timer = 1
    /\ timers = [id \in TimerIds |-> IF id = 1 THEN AfterFunc(0, d) ELSE FreeTimer]
    /\ mu = Free
    /\ ipc = [r \in Reqs |-> "idle"]
    /\ enteredAt = [r \in Reqs |-> None]
    /\ invoked = 0
    /\ stopped = FALSE
    /\ lastEnter = None
    /\ lastDrain = [at |-> None, long |-> FALSE]
    /\ rec = NoRec
    /\ skips = FALSE
    /\ shutdowns = 0
    /\ panics = FALSE
    /\ lateShutdown = FALSE

InitI == New(Timeout)

InitW ==
    /\ wpc = "start"
    /\ wtimer = "unset"
    /\ wtick = FALSE
    /\ resetCh = 0
    /\ cancelled = FALSE
    /\ onceDone = FALSE
    /\ activeReqs = 0
    /\ rpc = [r \in Reqs |-> "idle"]
    /\ stops = 0
    /\ stopPhase = "never"
    /\ wcalls = 0
    /\ wrec = [inflight |-> 0, cancelled |-> FALSE, phase |-> "never",
               late |-> FALSE]
    /\ lateEntry = FALSE
    /\ wdrained = FALSE
    /\ wblocked = FALSE

\* configureInactivityTimeout: timer := time.AfterFunc(duration, ...).
InitS ==
    /\ snow = 0
    /\ stimer = [armed |-> TRUE, deadline |-> Duration]
    /\ cbWait = 0
    /\ cbReady = 0
    /\ sactive = 0
    /\ spc = [r \in Reqs |-> "idle"]
    /\ sLastEnter = None
    /\ stopCalls = 0
    /\ srec = [at |-> None, enter |-> None, inflight |-> 0]

\* main: tracker := newActivityTracker(logger) and go monitorActivity(...),
\* which begins with ticker := time.NewTicker(1 * time.Minute).
InitA ==
    /\ anow = 0
    /\ lastActivity = 0
    /\ apc = [r \in Reqs |-> "idle"]
    /\ tickReady = FALSE
    /\ nextTick = TickerPeriod
    /\ ctxDone = FALSE
    /\ mpc = "select"
    /\ inactiveDuration = None
    /\ closes = 0
    /\ arec = [at |-> None, idle |-> None, inflight |-> 0, cancelled |-> FALSE]

Init == InitI /\ InitW /\ InitS /\ InitA

\* The clock advances.
Tick ==
    /\ now < MaxTime
    /\ now' = now + 1
    /\ UNCHANGED <<active, timer, timerActive, mu, timers, ipc, enteredAt,
                   invoked, stopped, lastEnter, lastDrain, rec, skips>>
    /\ UNCHANGED <<timeout, shutdowns, panics, lateShutdown>>
    /\ UNCHANGED wvars
    /\ UNCHANGED <<svars, avars>>

\* The runtime starts the callback goroutine of a timer that is due.
TimerFire(id) ==
    /\ timers[id].state = "scheduled"
    /\ now >= timers[id].deadline
    /\ timers' = [timers EXCEPT ![id].state = "fired"]
    /\ UNCHANGED <<now, active, timer, timerActive, mu, ipc, enteredAt,
                   invoked, stopped, lastEnter, lastDrain, rec, skips>>
    /\ UNCHANGED <<timeout, shutdowns, panics, lateShutdown>>
    /\ UNCHANGED wvars
    /\ UNCHANGED <<svars, avars>>

\* The test of the timer callback: `if inactivity.active == 0`.
CallbackInvokesAlways(act) == TRUE
CallbackInvokes(act) == act = 0

\* The timer field after the timer callback: `inactivity.timer = nil`.
CallbackTimerFieldKept(tmr) == tmr
CallbackTimerField(tmr) == Nil

\* The assignments that end the timer callback:
\* timerActive = false; timer = nil; (deferred) mu.Unlock().
CallbackClear(id) ==
    /\ timerActive' = FALSE
    /\ timer' = CallbackTimerField(timer)
    /\ mu' = Free
    /\ timers' = Collect([timers EXCEPT ![id] = FreeTimer], Nil)

\* The callback goroutine of timer id gets the mutex and runs up to the call
\* of onInactive (which it enters holding the mutex), or, when the count is
\* not 0, to its end.
CallbackBegin(id) ==
    /\ timers[id].state = "fired"
    /\ mu = Free
    /\ IF CallbackInvokes(active)
       THEN /\ invoked < MaxInvoked
            /\ mu' = id
            /\ timers' = [timers EXCEPT ![id].state = "invoking"]
            /\ invoked' = invoked + 1
            /\ rec' = [at |-> now, enter |-> lastEnter,
                       drain |-> lastDrain.at, long |-> lastDrain.long,
                       inflight |-> Cardinality(Serving),
                       reset |-> timers[id].reset, stopped |-> stopped]
            /\ UNCHANGED <<timer, timerActive, skips>>
       ELSE /\ CallbackClear(id)
            /\ skips' = TRUE
            /\ UNCHANGED <<invoked, rec>>
    /\ UNCHANGED <<now, active, ipc, enteredAt, stopped, lastEnter, lastDrain>>
    /\ UNCHANGED <<timeout, shutdowns, panics, lateShutdown>>
    /\ UNCHANGED wvars
    /\ UNCHANGED <<svars, avars>>

\* onInactive returns and the callback runs to its end.
CallbackEnd(id) ==
    /\ timers[id].state = "invoking"
    /\ mu = id
    /\ CallbackClear(id)
    /\ UNCHANGED <<now, active, ipc, enteredAt, invoked, stopped, lastEnter,
                   lastDrain, rec, skips>>
    /\ UNCHANGED <<timeout, shutdowns, panics, lateShutdown>>
    /\ UNCHANGED wvars
    /\ UNCHANGED <<svars, avars>>

\* The timer objects after the body of Shutdown:
\* `if i.timer != nil { i.timer.Stop() }`.
ShutdownTimersToggle(tms, tmr) ==
    IF tmr # Nil
    THEN [tms EXCEPT ![tmr] =
            IF tms[tmr].state = "stopped"
            THEN [tms[tmr] EXCEPT !.state = "scheduled"]
            ELSE TimerStop(tms[tmr])]
    ELSE tms
ShutdownTimers(tms, tmr) ==
    IF tmr # Nil THEN [tms EXCEPT ![tmr] = TimerStop(tms[tmr])] ELSE tms

\* The timer field after Shutdown: the timer it stopped stays referenced.
ShutdownTimerFieldCleared(tmr) == Nil
ShutdownTimerField(tmr) == tmr

\* Inactivity.Shutdown().
Shutdown ==
    /\ mu = Free
    /\ timers' = ShutdownTimers(timers, timer)
    /\ timer' = ShutdownTimerField(timer)
    /\ stopped' = (stopped \/ \A id \in TimerIds :
                                 timers[id].state \notin {"fired", "invoking"})
    /\ shutdowns' = IF shutdowns < MaxShutdowns THEN shutdowns + 1 ELSE shutdowns
    /\ UNCHANGED <<now, active, timerActive, mu, ipc, enteredAt,
                   invoked, lastEnter, lastDrain, rec, skips>>
    /\ lateShutdown' = (lateShutdown \/ (timer = Nil /\ active = 0 /\ invoked > 0))
    /\ UNCHANGED <<timeout, panics>>
    /\ UNCHANGED wvars
    /\ UNCHANGED <<svars, avars>>

\* `i.active++` and `i.active--`.
IncActive(act) == act + 1
DecActiveTwice(act) == act - 2
DecActive(act) == act - 1

\* The test of increment: `if i.timer != nil`.
IncrementClearsNever(tmr) == FALSE
IncrementClears(tmr) == tmr # Nil

\* Request r enters the handler of Wrap: i.increment().
Increment(r) ==
    /\ ipc[r] = "idle"
    /\ mu = Free
    /\ active' = IncActive(active)
    /\ IF IncrementClears(timer)
       THEN /\ timers' = Collect([timers EXCEPT ![timer] =
                             [TimerStop(timers[timer]) EXCEPT !.reset = TRUE]], Nil)
            /\ timer' = Nil
            /\ timerActive' = FALSE
       ELSE UNCHANGED <<timers, timer, timerActive>>
    /\ ipc' = [ipc EXCEPT ![r] = "serving"]
    /\ enteredAt' = [enteredAt EXCEPT ![r] = now]
    /\ lastEnter' = now
    /\ UNCHANGED <<now, mu, invoked, stopped, lastDrain, rec, skips>>
    /\ UNCHANGED <<timeout, shutdowns, panics, lateShutdown>>
    /\ UNCHANGED wvars
    /\ UNCHANGED <<svars, avars>>

\* `defer i.decrement()`: decrement runs when next.ServeHTTP returns and
\* when it panics.
DecrementRunsOnReturnOnly(panicked) == ~panicked
DecrementRuns(panicked) == TRUE

\* The test of decrement: `if i.active == 0 && !i.timerActive`.
DecrementArmsIfActive(act, ta) == act = 0 /\ ta
DecrementArms(act, ta) == act = 0 /\ ~ta

\* next.ServeHTTP of request r returns or panics, and the deferred
\* i.decrement() runs.
Decrement(r) ==
    \E panicked \in BOOLEAN :
        /\ ipc[r] = "serving"
        /\ IF DecrementRuns(panicked)
           THEN /\ mu = Free
                /\ active' = DecActive(active)
                /\ IF DecrementArms(active', timerActive)
                   THEN /\ FreeIds # {}
                        /\ timerActive' = TRUE
                        /\ timer' = NewId
                        /\ timers' = [timers EXCEPT ![NewId] = AfterFunc(now, timeout)]
                   ELSE UNCHANGED <<timers, timer, timerActive>>
                /\ lastDrain' = IF active' = 0
                                THEN [at |-> now, long |-> now - enteredAt[r] > timeout]
                                ELSE lastDrain
           ELSE UNCHANGED <<active, timers, timer, timerActive, lastDrain>>
        /\ panics' = (panics \/ panicked)
        /\ ipc' = [ipc EXCEPT ![r] = "idle"]
        /\ enteredAt' = [enteredAt EXCEPT ![r] = None]
        /\ UNCHANGED <<now, mu, invoked, stopped, lastEnter, rec, skips>>
        /\ UNCHANGED <<timeout, shutdowns, lateShutdown>>
        /\ UNCHANGED wvars
        /\ UNCHANGED <<svars, avars>>

NextI ==
    \/ Tick
    \/ \E id \in TimerIds : TimerFire(id)
    \/ \E id \in TimerIds : CallbackBegin(id)
    \/ \E id \in TimerIds : CallbackEnd(id)
    \/ Shutdown
    \/ \E r \in Reqs : Increment(r)
    \/ \E r \in Reqs : Decrement(r)

SpecI == Init /\ [][NextI]_vars

\* Time passes, due timers start their callback, and callback goroutines
\* are scheduled and return from onInactive.
FairSpecI ==
    /\ SpecI
    /\ WF_vars(Tick)
    /\ WF_vars(\E id \in TimerIds : TimerFire(id))
    /\ WF_vars(\E id \in TimerIds : CallbackBegin(id))
    /\ WF_vars(\E id \in TimerIds : CallbackEnd(id))

\* New called with a timeout that is not positive.
NonPositive == {0 - 1, 0}
InitNonPositive ==
    (\E d \in NonPositive : New(d)) /\ InitW /\ InitS /\ InitA
\* With such a timeout every timer is due as soon as it is made: the steps
\* of one instant.
NextNonPositive ==
    \/ \E id \in TimerIds : TimerFire(id)
    \/ \E id \in TimerIds : CallbackBegin(id)
    \/ \E id \in TimerIds : CallbackEnd(id)
    \/ Shutdown
    \/ \E r \in Reqs : Increment(r)
    \/ \E r \in Reqs : Decrement(r)
SpecNonPositive == InitNonPositive /\ [][NextNonPositive]_vars

\* =========================================================================
\* Watchdog (package inactivity: NewWatchdog, Middleware, Stop, watch)
\* =========================================================================

WServing == {r \in Reqs : rpc[r] = "serving"}

\* Where the watchdog stands, as Stop() finds it:
\*   "armed"    the timer of watch has not expired (or is not made yet)
\*   "expired"  the timer has expired, watch has not yet taken the value
\*   "draining" watch took the value and is in activeReqs.Wait()
\*   "drained"  Wait() returned, shutdownFn not yet called
\*   "done"     watch has returned
Phase ==
    CASE wpc = "start" -> "armed"
      [] wpc = "select" /\ wtimer = "armed" -> "armed"
      [] wpc = "select" /\ wtimer # "armed" -> "expired"
      [] wpc = "wait" -> "draining"
      [] wpc = "call" -> "drained"
      [] OTHER -> "done"

\* watch starts: timer := time.NewTimer(w.timeout).
WStart ==
    /\ wpc = "start"
    /\ wtimer' = "armed"
    /\ wpc' = "select"
    /\ UNCHANGED <<wtick, resetCh, cancelled, onceDone, activeReqs, rpc, stops,
                   stopPhase, wcalls, wrec>>
    /\ UNCHANGED <<lateEntry, wdrained, wblocked>>
    /\ UNCHANGED ivars
    /\ UNCHANGED <<svars, avars>>

\* The timer of watch expires: the runtime sends on timer.C.
WExpire ==
    /\ wtimer = "armed"
    /\ wtimer' = "expired"
    /\ wtick' = TRUE
    /\ UNCHANGED <<wpc, resetCh, cancelled, onceDone, activeReqs, rpc, stops,
                   stopPhase, wcalls, wrec>>
    /\ UNCHANGED <<lateEntry, wdrained, wblocked>>
    /\ UNCHANGED ivars
    /\ UNCHANGED <<svars, avars>>

\* Where watch goes from case <-w.shutdownCtx.Done(): `return`.
AfterCtxDoneLoops == "select"
AfterCtxDone == "done"

\* select, case <-w.shutdownCtx.Done(): return (deferred timer.Stop()).
WSelectDone ==
    /\ wpc = "select"
    /\ cancelled
    /\ wpc' = AfterCtxDone
    /\ wtimer' = IF wtimer = "armed" THEN "stopped" ELSE wtimer
    /\ UNCHANGED <<wtick, resetCh, onceDone, cancelled, activeReqs, rpc, stops,
                   stopPhase, wcalls, wrec>>
    /\ UNCHANGED <<lateEntry, wdrained, wblocked>>
    /\ UNCHANGED ivars
    /\ UNCHANGED <<svars, avars>>

\* What is ready on timer.C after
\* `if !timer.Stop() { select { case <-timer.C: default: } }`: nothing.  Stop
\* reports false exactly when the timer had expired, and the value it sent,
\* if watch has not received it, is taken out.
StopKeepsTick(tick) == tick
StopAndDrain(tick) == FALSE

\* select, case <-w.resetCh: stop the timer, drain timer.C when Stop reports
\* that the timer had expired, and Reset it to the full timeout.
WSelectReset ==
    /\ wpc = "select"
    /\ resetCh > 0
    /\ resetCh' = resetCh - 1
    /\ wtimer' = "armed"
    /\ wtick' = StopAndDrain(wtick)
    /\ wdrained' = (wdrained \/ wtick)
    /\ UNCHANGED wblocked
    /\ UNCHANGED <<wpc, cancelled, onceDone, activeReqs, rpc, stops, stopPhase,
                   wcalls, wrec>>
    /\ lateEntry' = FALSE
    /\ UNCHANGED ivars
    /\ UNCHANGED <<svars, avars>>

\* select, case <-timer.C: go on to activeReqs.Wait().
WSelectTimer ==
    /\ wpc = "select"
    /\ wtick
    /\ wtick' = FALSE
    /\ wpc' = "wait"
    /\ wblocked' = (wblocked \/ activeReqs > 0)
    /\ UNCHANGED <<wtimer, resetCh, cancelled, onceDone, activeReqs, rpc, stops,
                   stopPhase, wcalls, wrec>>
    /\ UNCHANGED <<lateEntry, wdrained>>
    /\ UNCHANGED ivars
    /\ UNCHANGED <<svars, avars>>

\* w.activeReqs.Wait() returns: the counter is 0.
WWait ==
    /\ wpc = "wait"
    /\ activeReqs = 0
    /\ wpc' = "call"
    /\ UNCHANGED <<wtimer, wtick, resetCh, cancelled, onceDone, activeReqs, rpc,
                   stops, stopPhase, wcalls, wrec>>
    /\ UNCHANGED <<lateEntry, wdrained, wblocked>>
    /\ UNCHANGED ivars
    /\ UNCHANGED <<svars, avars>>

\* Where watch goes after w.shutdownFn(): `return`.
AfterShutdownFnLoops == "select"
AfterShutdownFn == "done"

\* w.shutdownFn(); return.
WCall ==
    /\ wpc = "call"
    /\ wcalls' = wcalls + 1
    /\ wrec' = [inflight |-> Cardinality(WServing), cancelled |-> cancelled,
                phase |-> stopPhase, late |-> lateEntry]
    /\ wpc' = AfterShutdownFn
    /\ UNCHANGED <<wtimer, wtick, resetCh, cancelled, onceDone, activeReqs, rpc,
                   stops, stopPhase>>
    /\ UNCHANGED <<lateEntry, wdrained, wblocked>>
    /\ UNCHANGED ivars
    /\ UNCHANGED <<svars, avars>>

\* Watchdog.Stop(): w.once.Do(w.cancel).
Stop ==
    /\ stops < MaxStops
    /\ stops' = stops + 1
    /\ IF ~onceDone
       THEN /\ onceDone' = TRUE
            /\ cancelled' = TRUE
            /\ stopPhase' = Phase
       ELSE UNCHANGED <<onceDone, cancelled, stopPhase>>
    /\ UNCHANGED <<wpc, wtimer, wtick, resetCh, activeReqs, rpc, wcalls, wrec>>
    /\ UNCHANGED <<lateEntry, wdrained, wblocked>>
    /\ UNCHANGED ivars
    /\ UNCHANGED <<svars, avars>>

\* Request r enters the handler of Middleware and reaches the send.
REnter(r) ==
    /\ rpc[r] = "idle"
    /\ rpc' = [rpc EXCEPT ![r] = "send"]
    /\ UNCHANGED <<wpc, wtimer, wtick, resetCh, cancelled, onceDone, activeReqs,
                   stops, stopPhase, wcalls, wrec>>
    /\ lateEntry' = (lateEntry \/ Phase \in {"expired", "draining", "drained"})
    /\ UNCHANGED <<wdrained, wblocked>>
    /\ UNCHANGED ivars
    /\ UNCHANGED <<svars, avars>>

\* w.resetCh <- struct{}{}: completes when the buffer (capacity 1) has room.
RSend(r) ==
    /\ rpc[r] = "send"
    /\ resetCh < ResetCap
    /\ resetCh' = resetCh + 1
    /\ rpc' = [rpc EXCEPT ![r] = "add"]
    /\ UNCHANGED <<wpc, wtimer, wtick, cancelled, onceDone, activeReqs, stops,
                   stopPhase, wcalls, wrec>>
    /\ UNCHANGED <<lateEntry, wdrained, wblocked>>
    /\ UNCHANGED ivars
    /\ UNCHANGED <<svars, avars>>

\* w.activeReqs.Add(1), then next.ServeHTTP begins.
RAdd(r) ==
    /\ rpc[r] = "add"
    /\ activeReqs' = activeReqs + 1
    /\ rpc' = [rpc EXCEPT ![r] = "serving"]
    /\ wblocked' = (wblocked \/ wpc = "wait")
    /\ UNCHANGED <<wpc, wtimer, wtick, resetCh, cancelled, onceDone, stops,
                   stopPhase, wcalls, wrec>>
    /\ UNCHANGED <<lateEntry, wdrained>>
    /\ UNCHANGED ivars
    /\ UNCHANGED <<svars, avars>>

\* next.ServeHTTP returns and the deferred w.activeReqs.Done() runs.
RDone(r) ==
    /\ rpc[r] = "serving"
    /\ activeReqs' = activeReqs - 1
    /\ rpc' = [rpc EXCEPT ![r] = "idle"]
    /\ UNCHANGED <<wpc, wtimer, wtick, resetCh, cancelled, onceDone, stops,
                   stopPhase, wcalls, wrec>>
    /\ UNCHANGED <<lateEntry, wdrained, wblocked>>
    /\ UNCHANGED ivars
    /\ UNCHANGED <<svars, avars>>

NextW ==
    \/ WStart
    \/ WExpire
    \/ WSelectDone
    \/ WSelectReset
    \/ WSelectTimer
    \/ WWait
    \/ WCall
    \/ Stop
    \/ \E r \in Reqs : REnter(r)
    \/ \E r \in Reqs : RSend(r)
    \/ \E r \in Reqs : RAdd(r)
    \/ \E r \in Reqs : RDone(r)

SpecW == Init /\ [][NextW]_vars

\* The goroutines that can take a step do take it: the watch goroutine and
\* each request goroutine are scheduled, and inner handlers return.
FairSpecW ==
    /\ SpecW
    /\ WF_vars(WStart \/ WSelectDone \/ WSelectReset \/ WSelectTimer
                 \/ WWait \/ WCall)
    /\ \A r \in Reqs : WF_vars(RSend(r) \/ RAdd(r) \/ RDone(r))

\* The select of watch picks among its ready cases at random, so a case that
\* stays ready is taken in the end; Wait() returns once the counter stays at
\* 0; shutdownFn returns; and every inner handler returns.
LiveSpecW ==
    /\ SpecW
    /\ WF_vars(WStart)
    /\ WF_vars(WSelectDone)
    /\ WF_vars(WSelectTimer)
    /\ WF_vars(WWait)
    /\ WF_vars(WCall)
    /\ \A r \in Reqs : WF_vars(RDone(r))

\* =========================================================================
\* configureInactivityTimeout (src/internal/app/server.go)
\* =========================================================================

\* Requests between activeReqs.Add(1) and activeReqs.Done().
SInFlight == {r \in Reqs : spc[r] # "idle"}

\* The clock advances.
STick ==
    /\ snow < MaxTime
    /\ snow' = snow + 1
    /\ UNCHANGED <<stimer, cbWait, cbReady, sactive, spc, sLastEnter, stopCalls,
                   srec>>
    /\ UNCHANGED <<ivars, wvars, avars>>

\* The timer is due: the runtime starts the callback in a goroutine of its
\* own, which begins with activeReqs.Wait().
SFire ==
    /\ stimer.armed
    /\ snow >= stimer.deadline
    /\ stimer' = [stimer EXCEPT !.armed = FALSE]
    /\ cbWait' = cbWait + 1
    /\ UNCHANGED <<snow, cbReady, sactive, spc, sLastEnter, stopCalls, srec>>
    /\ UNCHANGED <<ivars, wvars, avars>>

\* activeReqs.Wait() returns in a callback goroutine: the counter is 0.
SWait ==
    /\ cbWait > 0
    /\ sactive = 0
    /\ cbWait' = cbWait - 1
    /\ cbReady' = cbReady + 1
    /\ UNCHANGED <<snow, stimer, sactive, spc, sLastEnter, stopCalls, srec>>
    /\ UNCHANGED <<ivars, wvars, avars>>

\* A callback goroutine logs and calls stop().
SStop ==
    /\ cbReady > 0
    /\ cbReady' = cbReady - 1
    /\ stopCalls' = stopCalls + 1
    /\ srec' = [at |-> snow, enter |-> sLastEnter,
                inflight |-> Cardinality(SInFlight)]
    /\ UNCHANGED <<snow, stimer, cbWait, sactive, spc, sLastEnter>>
    /\ UNCHANGED <<ivars, wvars, avars>>

\* Request r enters resetTimerMiddleware: activeReqs.Add(1) and the deferred
\* Done.  Once stop() has cancelled the context, run() shuts the HTTP server
\* down and no further request is let in.
SAdd(r) ==
    /\ spc[r] = "idle"
    /\ stopCalls = 0
    /\ sactive' = sactive + 1
    /\ spc' = [spc EXCEPT ![r] = "added"]
    /\ sLastEnter' = snow
    /\ UNCHANGED <<snow, stimer, cbWait, cbReady, stopCalls, srec>>
    /\ UNCHANGED <<ivars, wvars, avars>>

\* mu.Lock(); timer.Reset(duration); mu.Unlock(): the timer is armed for a
\* full duration, whether or not it had fired, and next.ServeHTTP begins.
SReset(r) ==
    /\ spc[r] = "added"
    /\ stimer' = [armed |-> TRUE, deadline |-> snow + Duration]
    /\ spc' = [spc EXCEPT ![r] = "serving"]
    /\ UNCHANGED <<snow, cbWait, cbReady, sactive, sLastEnter, stopCalls, srec>>
    /\ UNCHANGED <<ivars, wvars, avars>>

\* next.ServeHTTP returns and the deferred activeReqs.Done() runs.
SDone(r) ==
    /\ spc[r] = "serving"
    /\ sactive' = sactive - 1
    /\ spc' = [spc EXCEPT ![r] = "idle"]
    /\ UNCHANGED <<snow, stimer, cbWait, cbReady, sLastEnter, stopCalls, srec>>
    /\ UNCHANGED <<ivars, wvars, avars>>

NextS ==
    \/ STick
    \/ SFire
    \/ SWait
    \/ SStop
    \/ \E r \in Reqs : SAdd(r)
    \/ \E r \in Reqs : SReset(r)
    \/ \E r \in Reqs : SDone(r)

SpecS == Init /\ [][NextS]_vars

\* =========================================================================
\* activityTracker and monitorActivity (src/activity.go)
\* =========================================================================

\* Requests inside next.ServeHTTP of withActivityTracking.
AInFlight == {r \in Reqs : apc[r] = "serving"}

\* The clock advances.
ATick ==
    /\ anow < MaxATime
    /\ anow' = anow + 1
    /\ UNCHANGED <<lastActivity, apc, tickReady, nextTick, ctxDone, mpc,
                   inactiveDuration, closes, arec>>
    /\ UNCHANGED <<ivars, wvars, svars>>

\* The ticker is due: the runtime sends on ticker.C, whose buffer holds one
\* value (a value sent to a full buffer is dropped).  The ticker is stopped
\* when monitorActivity returns.
TickerSend ==
    /\ mpc # "done"
    /\ anow >= nextTick
    /\ tickReady' = TRUE
    /\ nextTick' = nextTick + TickerPeriod
    /\ UNCHANGED <<anow, lastActivity, apc, ctxDone, mpc, inactiveDuration,
                   closes, arec>>
    /\ UNCHANGED <<ivars, wvars, svars>>

\* The caller cancels ctx.
CancelCtx ==
    /\ ~ctxDone
    /\ ctxDone' = TRUE
    /\ UNCHANGED <<anow, lastActivity, apc, tickReady, nextTick, mpc,
                   inactiveDuration, closes, arec>>
    /\ UNCHANGED <<ivars, wvars, svars>>

\* Request r enters the handler of withActivityTracking: tracker.update()
\* sets lastActivity to the current time, and next.ServeHTTP begins.  Once
\* shutdown is closed, main shuts the HTTP server down and no further
\* request is let in.
TrackEnter(r) ==
    /\ apc[r] = "idle"
    /\ closes = 0
    /\ lastActivity' = anow
    /\ apc' = [apc EXCEPT ![r] = "serving"]
    /\ UNCHANGED <<anow, tickReady, nextTick, ctxDone, mpc, inactiveDuration,
                   closes, arec>>
    /\ UNCHANGED <<ivars, wvars, svars>>

\* next.ServeHTTP of request r returns; the handler logs and returns.
TrackLeave(r) ==
    /\ apc[r] = "serving"
    /\ apc' = [apc EXCEPT ![r] = "idle"]
    /\ UNCHANGED <<anow, lastActivity, tickReady, nextTick, ctxDone, mpc,
                   inactiveDuration, closes, arec>>
    /\ UNCHANGED <<ivars, wvars, svars>>

\* select, case <-ctx.Done(): return (deferred ticker.Stop()).
MonitorCtxDone ==
    /\ mpc = "select"
    /\ ctxDone
    /\ mpc' = "done"
    /\ UNCHANGED <<anow, lastActivity, apc, tickReady, nextTick, ctxDone,
                   inactiveDuration, closes, arec>>
    /\ UNCHANGED <<ivars, wvars, svars>>

\* select, case <-ticker.C.
MonitorTick ==
    /\ mpc = "select"
    /\ tickReady
    /\ tickReady' = FALSE
    /\ mpc' = "check"
    /\ UNCHANGED <<anow, lastActivity, apc, nextTick, ctxDone,
                   inactiveDuration, closes, arec>>
    /\ UNCHANGED <<ivars, wvars, svars>>

\* tracker.timeSinceLastActivity(): time.Since(t.lastActivity).
timeSinceLastActivity == anow - lastActivity

\* inactiveDuration := tracker.timeSinceLastActivity(), and the test
\* `if inactiveDuration > shutdownTimeout`.
MonitorCheck ==
    /\ mpc = "check"
    /\ inactiveDuration' = timeSinceLastActivity
    /\ mpc' = IF inactiveDuration' > ShutdownTimeout THEN "close" ELSE "select"
    /\ UNCHANGED <<anow, lastActivity, apc, tickReady, nextTick, ctxDone,
                   closes, arec>>
    /\ UNCHANGED <<ivars, wvars, svars>>

\* close(shutdown); return (deferred ticker.Stop()).
MonitorClose ==
    /\ mpc = "close"
    /\ closes' = closes + 1
    /\ arec' = [at |-> anow, idle |-> inactiveDuration,
                inflight |-> Cardinality(AInFlight), cancelled |-> ctxDone]
    /\ mpc' = "done"
    /\ UNCHANGED <<anow, lastActivity, apc, tickReady, nextTick, ctxDone,
                   inactiveDuration>>
    /\ UNCHANGED <<ivars, wvars, svars>>

NextA ==
    \/ ATick
    \/ TickerSend
    \/ CancelCtx
    \/ \E r \in Reqs : TrackEnter(r)
    \/ \E r \in Reqs : TrackLeave(r)
    \/ MonitorCtxDone
    \/ MonitorTick
    \/ MonitorCheck
    \/ MonitorClose

SpecA == Init /\ [][NextA]_vars

\* =========================================================================
\* Properties of Inactivity
\* =========================================================================

\* C1: onInactive is invoked at most once over the lifetime of one
\* Inactivity value, whatever requests and timer expirations occur.
C1_InvokedAtMostOnce == invoked <= 1

\* C2: the callback of a timer that increment has reset (Stop called, timer
\* field cleared) never invokes onInactive.
C2_ResetTimerNeverInvokes == invoked > 0 => ~rec.reset

\* C3: onInactive is not invoked before one timeout has passed since the
\* latest entry of a request into the handler of Wrap.
C3_NoFireBeforeEnterPlusTimeout ==
    (invoked > 0 /\ rec.enter # None) => rec.at >= rec.enter + timeout

\* C4: onInactive is invoked only when no request is in flight: none is
\* inside the inner handler at the call or while onInactive executes, and
\* the count the callback compared with 0 is the current one.
C4_InvokedOnlyWhenIdle ==
    /\ invoked > 0 => rec.inflight = 0
    /\ \A id \in TimerIds :
          timers[id].state = "invoking" => (Serving = {} /\ active = 0)

\* A timer expired while a request was in flight, its callback did not call
\* onInactive, and onInactive was called later with no request in flight.
C4_Witness == skips /\ invoked > 0 /\ rec.inflight = 0 /\ rec.enter # None

\* C6: after a Shutdown() made before any timer expired, onInactive is never
\* invoked, whatever requests enter and leave afterwards.
C6_ShutdownSuppresses == invoked > 0 => ~rec.stopped

\* C10: after a request that outlasted the timeout brought the count back to
\* 0, onInactive is invoked no earlier than one timeout after that instant.
C10_FireAfterDrainPlusTimeout ==
    (invoked > 0 /\ rec.long) => rec.at >= rec.drain + timeout

\* C11: the timer is armed at construction, and from any state with no
\* request in flight and onInactive not yet invoked, onInactive is eventually
\* invoked unless a further request arrives or Shutdown() is called.  (A
\* timer armed later than MaxTime - timeout falls due after the last instant
\* of the clock.)
C11_EventuallyInvoked ==
    /\ timer # Nil /\ timers[timer].state = "scheduled"
    /\ (Serving = {} /\ invoked = 0 /\ shutdowns = 0
          /\ now + timeout <= MaxTime)
          ~> (invoked > 0 \/ Serving # {} \/ shutdowns > 0)

\* onInactive was invoked after the last request left, without Shutdown().
C11_Witness ==
    invoked > 0 /\ shutdowns = 0 /\ rec.enter # None /\ rec.drain # None

\* C12: active is never negative and equals the number of requests that
\* have run increment and not yet decrement.
C12_ActiveCountsInFlight == active >= 0 /\ active = Cardinality(Serving)

\* Every request goroutine is between increment and decrement at once.
C12_Witness == active = NumReqs /\ Cardinality(Serving) = NumReqs

\* C13: decrement runs on every exit of the inner handler, panics included,
\* so active is 0 whenever no request is inside the wrapped handler.
C13_NoRequestMeansZero == Serving = {} => active = 0

\* An inner handler has panicked and every request has left the handler.
C13_Witness == panics /\ Serving = {} /\ active = 0 /\ lastDrain.at # None

\* C14: a construction with a timeout that is not positive is rejected: it
\* never leads to a call of onInactive.
C14_NonPositiveTimeoutRejected == timeout <= 0 => invoked = 0

\* C15: every scheduled timer is the one the timer field references, so at
\* most one timer is scheduled at any time.
C15_OnlyReferencedTimerScheduled ==
    \A id \in TimerIds : timers[id].state = "scheduled" => timer = id

C24_OnInactiveOutsideMutex ==
    \A id \in TimerIds : timers[id].state = "invoking" => mu = Free

\* C25: Shutdown() only cancels: it leaves active, timerActive and the
\* timer field as they are and does not invoke onInactive, and when the
\* timer field is nil it changes no timer either.
C25_ShutdownPureCancel ==
    [][Shutdown => /\ active' = active
                   /\ timerActive' = timerActive
                   /\ timer' = timer
                   /\ invoked' = invoked
                   /\ (timer = Nil => timers' = timers)]_vars

\* Shutdown() has been called after onInactive had run and the callback had
\* set the timer field to nil.
C25_Witness == lateShutdown /\ timer = Nil /\ ~timerActive /\ invoked = 1

\* C28: whenever the mutex is free, timerActive is true if and only if the
\* timer field is not nil.
C28_TimerActiveIffTimerSet == mu = Free => (timerActive <=> timer # Nil)

\* After a request has left, decrement has set both the flag and the field;
\* earlier a callback had run and cleared both.
C28_Witness ==
    /\ mu = Free /\ timerActive /\ timer # Nil
    /\ lastDrain.at # None /\ skips

\* C29: whenever the mutex is free and a request is in flight, the timer
\* field is nil and timerActive is false; and the timer field is set to a
\* new timer only by the step that brings active from 1 to 0.
C29_NoTimerWhileActive ==
    /\ [](mu = Free /\ active > 0 => timer = Nil /\ ~timerActive)
    /\ [][(timer' # Nil /\ timer' # timer) => (active = 1 /\ active' = 0)]_vars

\* A request has left (by a panic) while another was in flight, the count
\* has never come back to 0, and no timer is armed.
C29_Witness ==
    /\ mu = Free /\ active = 1 /\ Cardinality(Serving) = 1
    /\ panics /\ lastDrain.at = None
    /\ timer = Nil /\ ~timerActive

\* =========================================================================
\* Properties of Watchdog
\* =========================================================================

\* C5: when shutdownFn is invoked, no request is between activeReqs.Add(1)
\* and activeReqs.Done().
C5_ShutdownFnOnlyWhenIdle == wcalls > 0 => wrec.inflight = 0

\* C7: when Stop() returned before the timer of watch expired, shutdownFn is
\* never invoked.
C7_StopBeforeExpirySuppresses == wcalls > 0 => wrec.phase # "armed"

\* C8: once Stop() has been called with shutdownFn not yet begun, shutdownFn
\* is never invoked, also when Stop() finds watch in activeReqs.Wait().
C8_StopSuppressesFromAnyState == wcalls > 0 => ~wrec.cancelled

\* C9: every request that has entered the handler of Middleware eventually
\* reaches the inner handler.
C9_RequestReachesHandler ==
    \A r \in Reqs : (rpc[r] = "send") ~> (rpc[r] = "serving")

\* C16: shutdownFn is invoked at most once, whatever requests, timer
\* expirations and calls of Stop() occur.
C16_ShutdownFnAtMostOnce == wcalls <= 1

\* shutdownFn has been invoked once; afterwards Stop() was called and a
\* request went through Middleware.
C16_Witness == wcalls = 1 /\ wpc = "done" /\ stops >= 1 /\ WServing # {}

\* C18: a request that enters Middleware after the timer has fired and
\* before shutdownFn begins cancels the pending shutdown: shutdownFn is not
\* invoked while such an entry has not been answered by a reset.
C18_LateRequestCancelsShutdown == wcalls > 0 => ~wrec.late

C23_WatchTerminates ==
    /\ (wpc = "wait") ~> (wcalls > 0 /\ wpc = "done")
    /\ cancelled ~> (wpc = "done")

\* watch reached Wait() with a request in flight, the request completed,
\* shutdownFn was invoked and watch returned, without any Stop().
C23_Witness == wblocked /\ wcalls = 1 /\ wpc = "done" /\ stops = 0

\* =========================================================================
\* Properties of configureInactivityTimeout
\* =========================================================================

\* C17: the inactivity timer invokes stop() at most once.
C17_StopAtMostOnce == stopCalls <= 1

\* C20: stop() is invoked only when no request is between activeReqs.Add(1)
\* and activeReqs.Done().
C20_StopOnlyWhenIdle == stopCalls > 0 => srec.inflight = 0

\* C21: stop() is not invoked before one full duration has passed since the
\* latest entry of a request into resetTimerMiddleware, also when the
\* timer.Reset of that request meets a callback that has already started.
C21_NoStopBeforeEnterPlusDuration ==
    (stopCalls > 0 /\ srec.enter # None) => srec.at >= srec.enter + Duration

\* =========================================================================
\* Properties of monitorActivity
\* =========================================================================

\* C26: monitorActivity closes shutdown only when the time since the latest
\* request entry, read after a tick, exceeds shutdownTimeout, and never
\* while a request is inside the handler of withActivityTracking.
C26_CloseOnlyWhenIdle ==
    closes > 0 => (arec.idle > ShutdownTimeout /\ arec.inflight = 0)

\* C27: monitorActivity closes shutdown at most once, does not close it once
\* ctx has been cancelled, and has returned once it has closed it.
C27_RespectsCancellation ==
    /\ closes <= 1
    /\ closes > 0 => (mpc = "done" /\ ~arec.cancelled)

====
